---- MODULE Spec2Model ----
(***************************************************************************)
(* Model of eval.py: PCK evaluation of an Hourglass keypoint model.        *)
(*                                                                         *)
(* Conventions                                                             *)
(*  - a path is a sequence of one-character strings;                       *)
(*  - a real number is a pair <<num, den>> with den > 0, compared by       *)
(*    cross multiplication (the code uses floats);                         *)
(*  - class_names is the sequence 1..n of distinct class names, a dict     *)
(*    keyed by class name is a function on 1..n;                           *)
(*  - a numpy array is [shape |-> s, at |-> f], f mapping 0-based index    *)
(*    tuples to elements; an element is the position it has in the flat    *)
(*    buffer of the tensor it came from.                                   *)
(***************************************************************************)
EXTENDS Integers, Sequences, FiniteSets, TLC

\* ---------------------------------------------------------------- bounds
MaxImages == 2
MaxClasses == 2
MaxKp == 2
MaxCoord == 3

\* ------------------------------------------------------------ paths
ExtTflite == <<".", "t", "f", "l", "i", "t", "e">>
ExtMnn == <<".", "m", "n", "n">>
ExtPb == <<".", "p", "b">>
ExtH5 == <<".", "h", "5">>

Prefixes ==
  { <<>>, <<"m">>, <<"a", "/", "b">>, <<"w", ".", "h", "5">>, <<"x", ".", "p", "b">> }

Suffixes ==
  { ExtTflite, ExtMnn, ExtPb, ExtH5,
    <<>>, <<"h", "5">>, <<".", "H", "5">>, <<".", "h", "5", "x">>,
    <<".", "p", "b", "t", "x", "t">>, <<".", "t", "f", "l", "i", "t">>,
    <<".", "m", "n", "n", "/">>, <<".", "o", "n", "n", "x">> }

Paths == { p \o s : p \in Prefixes, s \in Suffixes }

NoPath == <<"<", "n", "o", "n", "e", ">">>

\* str.endswith
endswith(s, suffix) ==
  /\ Len(suffix) <= Len(s)
  /\ SubSeq(s, Len(s) - Len(suffix) + 1, Len(s)) = suffix

NoModel == "none"

load_eval_model_swapped(model_path) ==
  IF endswith(model_path, ExtTflite)
    THEN [raised |-> FALSE, model |-> "tflite.Interpreter", model_format |-> "TFLITE"]
  ELSE IF endswith(model_path, ExtMnn)
    THEN [raised |-> FALSE, model |-> "MNN.Interpreter", model_format |-> "MNN"]
  ELSE IF endswith(model_path, ExtPb)
    THEN [raised |-> FALSE, model |-> "keras.Model", model_format |-> "H5"]
  ELSE IF endswith(model_path, ExtH5)
    THEN [raised |-> FALSE, model |-> "tf.Graph", model_format |-> "PB"]
  ELSE [raised |-> TRUE, error |-> "ValueError: invalid model file"]

\* load_eval_model: the (model, model_format) pair or the exception raised
load_eval_model(model_path) ==
  IF endswith(model_path, ExtTflite)
    THEN [raised |-> FALSE, model |-> "tflite.Interpreter", model_format |-> "TFLITE"]
  ELSE IF endswith(model_path, ExtMnn)
    THEN [raised |-> FALSE, model |-> "MNN.Interpreter", model_format |-> "MNN"]
  ELSE IF endswith(model_path, ExtPb)
    THEN [raised |-> FALSE, model |-> "tf.Graph", model_format |-> "PB"]
  ELSE IF endswith(model_path, ExtH5)
    THEN [raised |-> FALSE, model |-> "keras.Model", model_format |-> "H5"]
  ELSE [raised |-> TRUE, error |-> "ValueError: invalid model file"]

\* ------------------------------------------------------------ reals
Thresholds == { <<1, 2>>, <<5, 8>> }
Normalizes == { <<2, 1>>, <<32, 5>> }

Sq(x) == x * x

\* a < b, a = b, a <= b for pairs <<num, den>>, den > 0
RLess(a, b) == a[1] * b[2] < b[1] * a[2]
REq(a, b) == a[1] * b[2] = b[1] * a[2]
RLeq(a, b) == a[1] * b[2] <= b[1] * a[2]

\* squared length of gt_keypoint[0:2] - pred_keypoint[0:2]
SqDist(pred_keypoint, gt_keypoint) ==
  Sq(gt_keypoint[1] - pred_keypoint[1]) + Sq(gt_keypoint[2] - pred_keypoint[2])

\* np.linalg.norm(gt[0:2] - pred[0:2]) / normalize < threshold, for
\* normalize > 0: sqrt(D) * nd / nn < tn / td  <=>  tn > 0 and
\* D * (nd * td)^2 < (tn * nn)^2
distance_below(pred_keypoint, gt_keypoint, threshold, normalize) ==
  /\ threshold[1] > 0
  /\ SqDist(pred_keypoint, gt_keypoint) * Sq(normalize[2] * threshold[2])
       < Sq(threshold[1] * normalize[1])

check_pred_keypoints_leq(pred_keypoint, gt_keypoint, threshold, normalize) ==
  IF gt_keypoint[1] > 1 /\ gt_keypoint[2] > 1
    THEN IF \/ distance_below(pred_keypoint, gt_keypoint, threshold, normalize)
            \/ SqDist(pred_keypoint, gt_keypoint) * Sq(normalize[2] * threshold[2])
                 = Sq(threshold[1] * normalize[1])
           THEN 1
           ELSE 0
    ELSE -1

check_pred_keypoints(pred_keypoint, gt_keypoint, threshold, normalize) ==
  IF gt_keypoint[1] > 1 /\ gt_keypoint[2] > 1
    THEN IF distance_below(pred_keypoint, gt_keypoint, threshold, normalize)
           THEN 1
           ELSE 0
    ELSE -1

\* the loop of keypoint_accuracy, from keypoint i on
RECURSIVE kp_loop(_, _, _, _, _, _)
kp_loop(i, result_list, pred_keypoints, gt_keypoints, threshold, normalize) ==
  IF i > Len(gt_keypoints)
    THEN result_list
    ELSE kp_loop(i + 1,
                 Append(result_list,
                        check_pred_keypoints(pred_keypoints[i], gt_keypoints[i],
                                             threshold, normalize)),
                 pred_keypoints, gt_keypoints, threshold, normalize)

\* keypoint_accuracy: the result list, or the failed assertion
keypoint_accuracy(pred_keypoints, gt_keypoints, threshold, normalize) ==
  IF Len(pred_keypoints) # Len(gt_keypoints)
    THEN [raised |-> TRUE, error |-> "AssertionError: keypoint number mismatch"]
    ELSE [raised |-> FALSE,
          result_list |-> kp_loop(1, <<>>, pred_keypoints, gt_keypoints,
                                  threshold, normalize)]

\* ------------------------------------------------------------ arrays
HeatmapHeight == 2
HeatmapWidth == 3

Max(S) == CHOOSE x \in S : \A y \in S : y <= x

\* the 0-based index tuples of an array of the given shape
Indices(shape) ==
  IF Len(shape) = 0
    THEN { <<>> }
    ELSE { idx \in [1 .. Len(shape) -> 0 .. Max({ shape[d] : d \in 1 .. Len(shape) })] :
             \A d \in 1 .. Len(shape) : idx[d] < shape[d] }

\* position of idx in the flat (C order) buffer of an array of that shape
RECURSIVE RowMajor(_, _)
RowMajor(idx, shape) ==
  IF Len(shape) = 0
    THEN 0
    ELSE RowMajor(SubSeq(idx, 1, Len(idx) - 1), SubSeq(shape, 1, Len(shape) - 1))
           * shape[Len(shape)] + idx[Len(idx)]

\* np.array(flat).reshape(shape), the flat buffer holding base, base+1, ...
reshape(base, shape) ==
  [shape |-> shape, at |-> [idx \in Indices(shape) |-> base + RowMajor(idx, shape)]]

\* ndarray.transpose(axes), axes 0-based: result axis d is source axis axes[d]
transpose(a, axes) ==
  LET n == Len(a.shape)
      newshape == [d \in 1 .. n |-> a.shape[axes[d] + 1]]
      src(idx) == [k \in 1 .. n |-> idx[CHOOSE d \in 1 .. n : axes[d] + 1 = k]]
  IN  [shape |-> newshape, at |-> [idx \in Indices(newshape) |-> a.at[src(idx)]]]

\* a[0]
first(a) ==
  LET s == Tail(a.shape)
  IN  [shape |-> s, at |-> [idx \in Indices(s) |-> a.at[<<0>> \o idx]]]

NoHeatmap == [shape |-> <<>>, at |-> <<>>]

\* ------------------------------------------------------------ backends
DimensionTypes == { "Tensorflow", "Caffe", "Caffe_C4" }
DataTypes == { "Halide_Type_Float", "Halide_Type_Int" }

\* the output tensor of an MNN model with n heatmap channels
OutputShape(dimtype, n) ==
  IF dimtype = "Tensorflow"
    THEN <<1, HeatmapHeight, HeatmapWidth, n>>
    ELSE <<1, n, HeatmapHeight, HeatmapWidth>>

NoTensor == [dimtype |-> "none", dtype |-> "none", shape |-> <<>>]

\* the outputs of a two-stack Keras/TFLite model, one array per stack
StackOutputs(n) ==
  << reshape(0, <<1, HeatmapHeight, HeatmapWidth, n>>),
     reshape(100, <<1, HeatmapHeight, HeatmapWidth, n>>) >>

hourglass_predict_keras(prediction) ==
  [raised |-> FALSE, heatmap |-> first(prediction[Len(prediction)])]

hourglass_predict_tflite(prediction) ==
  [raised |-> FALSE, heatmap |-> first(prediction[Len(prediction)])]

hourglass_predict_pb(prediction) ==
  [raised |-> FALSE, heatmap |-> first(prediction)]

hourglass_predict_mnn_axes(output_tensor) ==
  LET output_data == reshape(0, output_tensor.shape)
  IN  IF output_tensor.dtype # "Halide_Type_Float"
        THEN [raised |-> TRUE, error |-> "AssertionError"]
      ELSE IF output_tensor.dimtype = "Caffe"
        THEN [raised |-> FALSE, heatmap |-> first(transpose(output_data, <<0, 3, 2, 1>>))]
      ELSE IF output_tensor.dimtype = "Caffe_C4"
        THEN [raised |-> TRUE,
              error |-> "ValueError: unsupported output tensor dimension type"]
      ELSE [raised |-> FALSE, heatmap |-> first(output_data)]

\* hourglass_predict_mnn, from the session's output tensor on
hourglass_predict_mnn(output_tensor) ==
  LET output_data == reshape(0, output_tensor.shape)
  IN  IF output_tensor.dtype # "Halide_Type_Float"
        THEN [raised |-> TRUE, error |-> "AssertionError"]
      ELSE IF output_tensor.dimtype = "Caffe"
        THEN [raised |-> FALSE, heatmap |-> first(transpose(output_data, <<0, 2, 3, 1>>))]
      ELSE IF output_tensor.dimtype = "Caffe_C4"
        THEN [raised |-> TRUE,
              error |-> "ValueError: unsupported output tensor dimension type"]
      ELSE [raised |-> FALSE, heatmap |-> first(output_data)]

\* ------------------------------------------------------------ accuracy
ValidFormats == { "TFLITE", "MNN", "PB", "H5" }
OtherFormats == { "ONNX", "h5" }

dispatch_swapped(model_format) ==
  CASE model_format = "TFLITE" -> "hourglass_predict_tflite"
    [] model_format = "MNN" -> "hourglass_predict_mnn"
    [] model_format = "PB" -> "hourglass_predict_keras"
    [] model_format = "H5" -> "hourglass_predict_pb"
    [] OTHER -> "hourglass_predict_keras"

\* the if/elif chain of eval_PCK: the predict function called for a format
dispatch(model_format) ==
  CASE model_format = "TFLITE" -> "hourglass_predict_tflite"
    [] model_format = "MNN" -> "hourglass_predict_mnn"
    [] model_format = "PB" -> "hourglass_predict_pb"
    [] model_format = "H5" -> "hourglass_predict_keras"
    [] OTHER -> "raise"

\* the call made by the chosen branch
predict(function, output_tensor, n) ==
  CASE function = "hourglass_predict_tflite" -> hourglass_predict_tflite(StackOutputs(n))
    [] function = "hourglass_predict_mnn" -> hourglass_predict_mnn(output_tensor)
    [] function = "hourglass_predict_pb" -> hourglass_predict_pb(StackOutputs(n)[2])
    [] function = "hourglass_predict_keras" -> hourglass_predict_keras(StackOutputs(n))
    [] OTHER -> [raised |-> TRUE, error |-> "ValueError: invalid model format"]

update_counter_else(dict, result_list, outcome) ==
  [c \in DOMAIN dict |->
     IF result_list[c] = outcome \/ result_list[c] = -1 THEN dict[c] + 1 ELSE dict[c]]

\* the counter loop of eval_PCK for one dict: +1 for each class whose result
\* is the given outcome
update_counter(dict, result_list, outcome) ==
  [c \in DOMAIN dict |-> IF result_list[c] = outcome THEN dict[c] + 1 ELSE dict[c]]

RECURSIVE SumTo(_, _)
SumTo(dict, n) == IF n = 0 THEN 0 ELSE SumTo(dict, n - 1) + dict[n]

\* np.sum(list(dict.values()))
np_sum(dict) == SumTo(dict, Len(dict))

\* the classes whose quotient in the accuracy loop divides by zero
ZeroClasses(succeed, fail) == { c \in DOMAIN succeed : succeed[c] + fail[c] = 0 }

\* succeed * 1.0 / (succeed + fail) on Python ints, succeed + fail > 0
class_accuracy(succeed, fail) == <<succeed, succeed + fail>>

\* sum of the quotients succeed[c] / (succeed[c] + fail[c]) over classes 1..n
RECURSIVE SumOfQuotients(_, _, _)
SumOfQuotients(succeed, fail, n) ==
  IF n = 0
    THEN <<0, 1>>
    ELSE LET r == SumOfQuotients(succeed, fail, n - 1)
             d == succeed[n] + fail[n]
         IN  <<r[1] * d + succeed[n] * r[2], r[2] * d>>

NaN == <<0, 0>>

total_accuracy_mean(succeed, fail) ==
  IF np_sum(succeed) + np_sum(fail) = 0
    THEN NaN
    ELSE LET r == SumOfQuotients(succeed, fail, Len(succeed))
         IN  <<r[1], r[2] * Len(succeed)>>

\* total_succeed * 1.0 / (total_fail + total_succeed) on numpy scalars:
\* 0.0 / 0 is nan (a RuntimeWarning, no exception), written <<0, 0>>
total_accuracy_of(succeed, fail) ==
  IF np_sum(succeed) + np_sum(fail) = 0
    THEN NaN
    ELSE <<np_sum(succeed), np_sum(fail) + np_sum(succeed)>>

\* round to the nearest integer, ties to even, of num / den
RoundHalfEven(num, den) ==
  LET q == num \div den
      r == num % den
  IN  IF 2 * r > den THEN q + 1
      ELSE IF 2 * r = den THEN q + (q % 2)
      ELSE q

\* '{:.2f}'.format(x): "nan", or x rounded to two decimals, given as the
\* number of hundredths printed (the ties of the quotients modelled are
\* eighths, which floats hold exactly)
format_2f(x) ==
  IF x[2] = 0
    THEN [text |-> "nan", hundredths |-> 0]
    ELSE [text |-> "number", hundredths |-> RoundHalfEven(100 * x[1], x[2])]

\* plot_title = "PCK@{0} score = {1:.2f}%".format(score_threshold, total_accuracy)
plot_title_of(score_threshold, total) ==
  [threshold |-> score_threshold, value |-> format_2f(total)]

NoTitle == [threshold |-> <<0, 1>>, value |-> [text |-> "none", hundredths |-> 0]]

\* ------------------------------------------------------------ state
VARIABLES
  pc,               \* position in main / eval_PCK / keypoint_accuracy
  error,            \* the exception that ended the run, "" if none
  model_path,       \* argument of load_eval_model
  model,            \* the loaded model object
  model_format,     \* format string handed to eval_PCK
  output_tensor,    \* output tensor of the MNN model
  session,          \* the session of eval_PCK: 0 if none, else the number
                    \* createSession gave it (1 for the first one created)
  session_args,     \* the sessions passed to hourglass_predict_mnn, in call order
  dataset_size,     \* eval_dataset.get_dataset_size()
  class_names,      \* <<1, ..., n>>
  save_result,
  score_threshold,
  normalize,
  count,            \* loop counter of eval_PCK
  fetched,          \* samples the generator has yielded
  heatmap,
  pred_keypoints,
  gt_keypoints,
  result_list,
  succeed_dict,
  fail_dict,
  accuracy_dict,
  total_accuracy,
  dirs,             \* directories made by touchdir
  plot_title,       \* title of the plot drawn
  returned,         \* whether eval_PCK returned (total_accuracy, accuracy_dict)
  history,          \* result lists of the images whose counters were updated
  events            \* calls made so far, <<function, image>>

vars ==
  << pc, error, model_path, model, model_format, output_tensor, session, session_args,
     dataset_size, class_names, save_result, score_threshold, normalize, count,
     fetched, heatmap, pred_keypoints, gt_keypoints, result_list, succeed_dict,
     fail_dict, accuracy_dict, total_accuracy, dirs, plot_title, returned,
     history, events >>

loadVars == << model_path, model, model_format >>
callVars ==
  << output_tensor, session, dataset_size, class_names, save_result,
     score_threshold, normalize >>
paramVars == << callVars, session_args >>
loopVars == << count, fetched, heatmap, pred_keypoints, gt_keypoints, result_list >>
dictVars == << succeed_dict, fail_dict, history >>
outVars == << accuracy_dict, total_accuracy, dirs, plot_title, returned >>

Coord == 0 .. MaxCoord
GtPoints == Coord \X Coord
PredPoints == { <<2, 2>>, <<3, 6>> }

\* keypoints of the evaluation runs: an invalid one, one hit and one miss
\* for every threshold and normalize modelled
EvalGtPoints == { <<1, 3>>, <<2, 2>>, <<2, 7>> }
EvalPredPoints == { <<2, 2>> }

\* the defaults of main: --score_threshold 0.5, normalize 6.4
EvalThresholds == { <<1, 2>> }
EvalNormalizes == { <<32, 5>> }

SeqsUpTo(S, n) == UNION { [1 .. k -> S] : k \in 0 .. n }

\* one path for each branch of load_eval_model
RunPaths ==
  { <<"m">> \o ExtTflite, <<"m">> \o ExtMnn, <<"m">> \o ExtPb, <<"m">> \o ExtH5,
    <<"m", ".", "o", "n", "n", "x">> }

\* nothing evaluated yet
Idle ==
  /\ error = ""
  /\ model = NoModel
  /\ model_format = ""
  /\ output_tensor = NoTensor
  /\ session = 0
  /\ session_args = <<>>
  /\ dataset_size = 0
  /\ class_names = <<>>
  /\ save_result = FALSE
  /\ count = 0
  /\ fetched = 0
  /\ heatmap = NoHeatmap
  /\ result_list = <<>>
  /\ succeed_dict = <<>>
  /\ fail_dict = <<>>
  /\ accuracy_dict = <<>>
  /\ total_accuracy = NaN
  /\ dirs = {}
  /\ plot_title = NoTitle
  /\ returned = FALSE
  /\ history = <<>>
  /\ events = <<>>

NoKeypoints ==
  /\ pred_keypoints = <<>>
  /\ gt_keypoints = <<>>
  /\ score_threshold = <<1, 2>>
  /\ normalize = <<2, 1>>

\* main() about to load the model, or a caller about to call eval_PCK
Init ==
  /\ Idle
  /\ NoKeypoints
  /\ \/ pc = "load" /\ model_path \in RunPaths
     \/ pc = "call" /\ model_path = NoPath

\* load_eval_model called on any path
InitLoad ==
  /\ Idle
  /\ NoKeypoints
  /\ pc = "load"
  /\ model_path \in Paths

\* keypoint_accuracy called on any keypoint arrays
InitKp ==
  /\ Idle
  /\ pc = "keypoint_accuracy"
  /\ model_path = NoPath
  /\ gt_keypoints \in SeqsUpTo(GtPoints, MaxKp)
  /\ pred_keypoints \in SeqsUpTo(PredPoints, MaxKp)
  /\ score_threshold \in Thresholds
  /\ normalize \in Normalizes

Raise(e) ==
  /\ pc' = "raised"
  /\ error' = e

\* ------------------------------------------------------------ actions
\* main: model, model_format = load_eval_model(args.model_path)
LoadEvalModel ==
  /\ pc = "load"
  /\ LET r == load_eval_model(model_path)
     IN  IF r.raised
           THEN /\ Raise(r.error)
                /\ UNCHANGED << model, model_format >>
           ELSE /\ pc' = "loaded"
                /\ model' = r.model
                /\ model_format' = r.model_format
                /\ UNCHANGED error
  /\ UNCHANGED << model_path, paramVars, loopVars, dictVars, outVars, events >>

\* keypoint_accuracy called on its own
KeypointAccuracy ==
  /\ pc = "keypoint_accuracy"
  /\ LET r == keypoint_accuracy(pred_keypoints, gt_keypoints, score_threshold, normalize)
     IN  IF r.raised
           THEN /\ Raise(r.error)
                /\ UNCHANGED result_list
           ELSE /\ pc' = "keypoint_accuracy_done"
                /\ result_list' = r.result_list
                /\ UNCHANGED error
  /\ UNCHANGED << loadVars, paramVars, count, fetched, heatmap, pred_keypoints,
                  gt_keypoints, dictVars, outVars, events >>

needs_session_always(fmt) == TRUE

\* if model_format == 'MNN': the formats eval_PCK creates a session for
needs_session(fmt) == fmt = "MNN"

\* eval_PCK up to its loop: the MNN session and the three dicts
EnterEvalPCK(fmt, mdl) ==
  /\ model' = mdl
  /\ model_format' = fmt
  /\ \E size \in 0 .. MaxImages, n \in 0 .. MaxClasses, save \in BOOLEAN,
        threshold \in EvalThresholds, norm \in EvalNormalizes :
       /\ dataset_size' = size
       /\ class_names' = [c \in 1 .. n |-> c]
       /\ save_result' = save
       /\ score_threshold' = threshold
       /\ normalize' = norm
       /\ IF fmt = "MNN"
            THEN \E dimtype \in DimensionTypes, dtype \in DataTypes :
                   output_tensor' = [dimtype |-> dimtype, dtype |-> dtype,
                                     shape |-> OutputShape(dimtype, n)]
            ELSE output_tensor' = NoTensor
       /\ succeed_dict' = [c \in 1 .. n |-> 0]
       /\ fail_dict' = [c \in 1 .. n |-> 0]
       /\ accuracy_dict' = [c \in 1 .. n |-> <<0, 1>>]
  /\ IF needs_session(fmt)
       THEN /\ session' = session + 1
            /\ events' = Append(events, <<"createSession", 0>>)
       ELSE UNCHANGED << session, events >>
  /\ count' = 0
  /\ pc' = "fetch"
  /\ UNCHANGED << error, model_path, session_args, fetched, heatmap, pred_keypoints,
                  gt_keypoints, result_list, history, total_accuracy, dirs,
                  plot_title, returned >>

\* main: eval_PCK(model, model_format, ...) on what load_eval_model returned
MainEvalPCK ==
  /\ pc = "loaded"
  /\ EnterEvalPCK(model_format, model)

\* eval_PCK called with a format string that load_eval_model never returns
CallEvalPCK ==
  /\ pc = "call"
  /\ \E fmt \in OtherFormats : EnterEvalPCK(fmt, "model")

after_update_save(save) == "save"

\* if save_result: after the counters of an image
after_update(save) == IF save THEN "save" ELSE "fetch"

after_accuracy_plot(save) == "plot"

\* if save_result: after the accuracies
after_accuracy(save) == IF save THEN "plot" ELSE "return"

break_at_size(n, size) == n >= size

\* the test that leaves the loop of eval_PCK
break(n, size) == n > size

\* the generator yields the next sample; count += batch_size; break test
Fetch ==
  /\ pc = "fetch"
  /\ fetched' = fetched + 1
  /\ count' = count + 1
  /\ events' = Append(events, <<"fetch", fetched + 1>>)
  /\ pc' = IF break(count + 1, dataset_size) THEN "accuracy" ELSE "predict"
  /\ UNCHANGED << error, loadVars, paramVars, heatmap, pred_keypoints,
                  gt_keypoints, result_list, dictVars, outVars >>

\* the inference of the fetched image by the backend of model_format
Predict ==
  /\ pc = "predict"
  /\ LET function == dispatch(model_format)
         r == predict(function, output_tensor, Len(class_names))
     IN  /\ IF function = "raise"
              THEN UNCHANGED events
              ELSE events' = Append(events, <<function, fetched>>)
         /\ session_args' = IF function = "hourglass_predict_mnn"
                              THEN Append(session_args, session)
                              ELSE session_args
         /\ IF r.raised
              THEN /\ Raise(r.error)
                   /\ UNCHANGED heatmap
              ELSE /\ pc' = "score"
                   /\ heatmap' = r.heatmap
                   /\ UNCHANGED error
  /\ UNCHANGED << loadVars, callVars, count, fetched, pred_keypoints,
                  gt_keypoints, result_list, dictVars, outVars >>

\* post_process_heatmap, metainfo['tpts'] and keypoint_accuracy: one
\* predicted and one ground-truth keypoint per class
Score ==
  /\ pc = "score"
  /\ \E pred \in [1 .. Len(class_names) -> EvalPredPoints],
        gt \in [1 .. Len(class_names) -> EvalGtPoints] :
       LET r == keypoint_accuracy(pred, gt, score_threshold, normalize)
       IN  /\ pred_keypoints' = pred
           /\ gt_keypoints' = gt
           /\ IF r.raised
                THEN /\ Raise(r.error)
                     /\ UNCHANGED << result_list, events >>
                ELSE /\ pc' = "update"
                     /\ result_list' = r.result_list
                     /\ events' = Append(events, <<"keypoint_accuracy", fetched>>)
                     /\ UNCHANGED error
  /\ UNCHANGED << loadVars, paramVars, count, fetched, heatmap, dictVars, outVars >>

\* the loop over class_names that counts the results of the image
Update ==
  /\ pc = "update"
  /\ fail_dict' = update_counter(fail_dict, result_list, 0)
  /\ succeed_dict' = update_counter(succeed_dict, result_list, 1)
  /\ history' = Append(history, result_list)
  /\ events' = Append(events, <<"update", fetched>>)
  /\ pc' = after_update(save_result)
  /\ UNCHANGED << error, loadVars, paramVars, loopVars, outVars >>

\* revert_keypoints and save_keypoints_detection of the image
SaveDetection ==
  /\ pc = "save"
  /\ dirs' = dirs \cup { "result/detection" }
  /\ events' = Append(events, <<"save_keypoints_detection", fetched>>)
  /\ pc' = "fetch"
  /\ UNCHANGED << error, loadVars, paramVars, loopVars, dictVars, accuracy_dict,
                  total_accuracy, plot_title, returned >>

\* the accuracy of each class, in class order, then the total accuracy
Accuracy ==
  /\ pc = "accuracy"
  /\ events' = Append(events, <<"accuracy", 0>>)
  /\ LET zero == ZeroClasses(succeed_dict, fail_dict)
         stop == IF zero = {} THEN Len(class_names) + 1
                 ELSE CHOOSE c \in zero : \A d \in zero : c <= d
     IN  /\ accuracy_dict' =
              [c \in DOMAIN accuracy_dict |->
                 IF c < stop THEN class_accuracy(succeed_dict[c], fail_dict[c])
                 ELSE accuracy_dict[c]]
         /\ IF zero # {}
              THEN /\ Raise("ZeroDivisionError")
                   /\ UNCHANGED total_accuracy
              ELSE /\ total_accuracy' = total_accuracy_of(succeed_dict, fail_dict)
                   /\ pc' = after_accuracy(save_result)
                   /\ UNCHANGED error
  /\ UNCHANGED << loadVars, paramVars, loopVars, dictVars, dirs, plot_title, returned >>

\* touchdir('result'), the title and draw_plot_func, whose zip(*...) fails
\* to unpack an empty accuracy_dict
Plot ==
  /\ pc = "plot"
  /\ dirs' = dirs \cup { "result" }
  /\ IF Len(accuracy_dict) = 0
       THEN /\ Raise("ValueError: not enough values to unpack")
            /\ UNCHANGED << plot_title, events >>
       ELSE /\ plot_title' = plot_title_of(score_threshold, total_accuracy)
            /\ events' = Append(events, <<"draw_plot_func", 0>>)
            /\ pc' = "return"
            /\ UNCHANGED error
  /\ UNCHANGED << loadVars, paramVars, loopVars, dictVars, accuracy_dict,
                  total_accuracy, returned >>

\* return total_accuracy, accuracy_dict
Return ==
  /\ pc = "return"
  /\ returned' = TRUE
  /\ pc' = "done"
  /\ UNCHANGED << error, loadVars, paramVars, loopVars, dictVars, accuracy_dict,
                  total_accuracy, dirs, plot_title, events >>

Next ==
  \/ LoadEvalModel
  \/ MainEvalPCK
  \/ CallEvalPCK
  \/ Fetch
  \/ Predict
  \/ Score
  \/ Update
  \/ SaveDetection
  \/ Accuracy
  \/ Plot
  \/ Return

Spec == Init /\ [][Next]_vars

NextLoad == LoadEvalModel
SpecLoad == InitLoad /\ [][NextLoad]_vars

NextKp == KeypointAccuracy
SpecKp == InitKp /\ [][NextKp]_vars

\* ------------------------------------------------------------ claims
\* path = prefix + ext for some prefix
HasExtension(path, ext) ==
  \E k \in 0 .. Len(path) : path = SubSeq(path, 1, k) \o ext

FormatOfExtension ==
  { <<ExtTflite, "TFLITE">>, <<ExtMnn, "MNN">>, <<ExtPb, "PB">>, <<ExtH5, "H5">> }

\* C1: load_eval_model maps the path to a format by its extension only:
\* '.tflite' gives 'TFLITE', '.mnn' 'MNN', '.pb' 'PB', '.h5' 'H5'; a path with
\* none of the four endings raises ValueError('invalid model file'), no model
\* is loaded and no (model, format) pair is returned.
C1_FormatByExtension ==
  pc # "load" =>
    /\ \A ef \in FormatOfExtension :
         HasExtension(model_path, ef[1]) =>
           /\ pc = "loaded"
           /\ model_format = ef[2]
           /\ model # NoModel
           /\ error = ""
    /\ (\A ef \in FormatOfExtension : ~HasExtension(model_path, ef[1])) =>
         /\ pc = "raised"
         /\ error = "ValueError: invalid model file"
         /\ model = NoModel
         /\ model_format = ""

\* a path with '.h5' inside and '.pb' at its end was loaded as 'PB'
C1_Witness ==
  /\ pc = "loaded"
  /\ model_path = <<"w", ".", "h", "5">> \o ExtPb
  /\ model_format = "PB"

\* (distance / normalize)^2 and threshold^2 of keypoint i
NormDistSq(i) ==
  << SqDist(pred_keypoints[i], gt_keypoints[i]) * Sq(normalize[2]), Sq(normalize[1]) >>
ThresholdSq == << Sq(score_threshold[1]), Sq(score_threshold[2]) >>

GtInvalid(i) == gt_keypoints[i][1] <= 1 \/ gt_keypoints[i][2] <= 1

\* C4: check_pred_keypoints gives -1 iff the ground-truth keypoint is invalid
\* (x <= 1 or y <= 1), else 1 iff distance / normalize < threshold and 0 when
\* it is equal or greater; keypoint_accuracy returns one such outcome per
\* ground-truth keypoint, entry i for keypoint i.
C4_Outcomes ==
  pc = "keypoint_accuracy_done" =>
    /\ Len(result_list) = Len(gt_keypoints)
    /\ \A i \in 1 .. Len(gt_keypoints) :
         /\ result_list[i] \in { -1, 0, 1 }
         /\ result_list[i] = -1 <=> GtInvalid(i)
         /\ result_list[i] = 1 <=> (~GtInvalid(i) /\ RLess(NormDistSq(i), ThresholdSq))
         /\ result_list[i] = 0 <=> (~GtInvalid(i) /\ RLeq(ThresholdSq, NormDistSq(i)))

\* a valid keypoint whose normalized distance equals the threshold failed,
\* next to an invalid one
C4_Witness ==
  /\ pc = "keypoint_accuracy_done"
  /\ Len(result_list) = 2
  /\ result_list[1] = 0
  /\ REq(NormDistSq(1), ThresholdSq)
  /\ result_list[2] = -1

PredictFunctions ==
  { "hourglass_predict_tflite", "hourglass_predict_mnn", "hourglass_predict_pb",
    "hourglass_predict_keras" }

IsStep(e) == e[1] \in PredictFunctions \cup { "fetch", "keypoint_accuracy", "update" }

\* the fetches, inferences, scorings and counter updates made so far, in order
Steps == SelectSeq(events, IsStep)

\* the loop has been left without an exception of the loop body
AfterLoop ==
  \/ pc \in { "accuracy", "plot", "return", "done" }
  \/ pc = "raised" /\ error \in { "ZeroDivisionError",
                                  "ValueError: not enough values to unpack" }

Terminated == pc \in { "done", "raised" }

\* fetch, inference, scoring and update of image 1, then of image 2, ...:
\* step k belongs to image (k - 1) \div 4 + 1 and is its ((k - 1) % 4)-th step
C3_InOrder ==
  LET steps == Steps
  IN  /\ fetched <= dataset_size + 1
      /\ \A k \in 1 .. Len(steps) :
           /\ steps[k][2] = ((k - 1) \div 4) + 1
           /\ CASE (k - 1) % 4 = 0 -> steps[k][1] = "fetch"
                [] (k - 1) % 4 = 1 -> steps[k][1] \in PredictFunctions
                [] (k - 1) % 4 = 2 -> steps[k][1] = "keypoint_accuracy"
                [] OTHER -> steps[k][1] = "update"
           /\ steps[k][1] # "fetch" => steps[k][2] <= dataset_size
      /\ AfterLoop =>
           /\ fetched = dataset_size + 1
           /\ Len(steps) = 4 * dataset_size + 1
           /\ Len(history) = dataset_size
      /\ (pc \in { "fetch", "predict", "score", "update", "save" }) =>
           fetched <= dataset_size
      /\ pc = "accuracy" => events[Len(events)] = <<"fetch", dataset_size + 1>>

\* an upper bound of the steps a run has left: 6 for each sample not yet
\* fetched, and the steps left at the present position
StepsLeft ==
  CASE pc \in { "load" } -> 6 * (MaxImages + 1) + 13
    [] pc \in { "loaded", "call" } -> 6 * (MaxImages + 1) + 12
    [] pc = "fetch" -> 6 * (dataset_size + 1 - fetched) + 5
    [] pc = "predict" -> 6 * (dataset_size + 1 - fetched) + 10
    [] pc = "score" -> 6 * (dataset_size + 1 - fetched) + 9
    [] pc = "update" -> 6 * (dataset_size + 1 - fetched) + 8
    [] pc = "save" -> 6 * (dataset_size + 1 - fetched) + 7
    [] pc = "accuracy" -> 3
    [] pc = "plot" -> 2
    [] pc = "return" -> 1
    [] OTHER -> 0

\* every step of a run uses up one of the steps left, none is left only in
\* a run that has returned or raised
C3_Progress ==
  /\ StepsLeft' < StepsLeft
  /\ StepsLeft' >= 0
  /\ StepsLeft' = 0 <=> Terminated'

\* C3: eval_PCK is strictly sequential and terminates: inference, scoring and
\* counter update run on exactly the first N yielded samples, in generator
\* order, each once and finished before the next starts; sample N+1 is fetched
\* but never inferred or scored, then the loop exits, the accuracies are
\* computed and the run ends.
C3_Sequential == []C3_InOrder /\ [][C3_Progress]_vars

\* a run over two images has returned after three fetches
C3_Witness ==
  /\ pc = "done"
  /\ dataset_size = 2
  /\ fetched = 3
  /\ Len(Steps) = 9

\* number of the images counted so far whose outcome for class c is o
Tally(c, o) == Cardinality({ k \in 1 .. Len(history) : history[k][c] = o })

InEval == pc \notin { "load", "loaded", "call", "keypoint_accuracy",
                      "keypoint_accuracy_done" } /\ model_format # ""

C9_Exact ==
  InEval =>
    /\ DOMAIN succeed_dict = DOMAIN class_names
    /\ DOMAIN fail_dict = DOMAIN class_names
    /\ \A c \in DOMAIN class_names :
         /\ succeed_dict[c] = Tally(c, 1)
         /\ fail_dict[c] = Tally(c, 0)
         /\ succeed_dict[c] + fail_dict[c] <= Len(history)
         /\ Len(history) = 0 => succeed_dict[c] = 0 /\ fail_dict[c] = 0
    /\ Len(history) <= fetched

C9_Step ==
  InEval =>
    \A c \in DOMAIN class_names :
      /\ succeed_dict'[c] >= succeed_dict[c]
      /\ fail_dict'[c] >= fail_dict[c]
      /\ (succeed_dict'[c] - succeed_dict[c]) + (fail_dict'[c] - fail_dict[c]) \in { 0, 1 }
      /\ pc # "update" => succeed_dict'[c] = succeed_dict[c] /\ fail_dict'[c] = fail_dict[c]
      /\ pc = "update" =>
           /\ result_list[c] = 1 => succeed_dict'[c] = succeed_dict[c] + 1
           /\ result_list[c] = 0 => fail_dict'[c] = fail_dict[c] + 1
           /\ result_list[c] = -1 =>
                succeed_dict'[c] = succeed_dict[c] /\ fail_dict'[c] = fail_dict[c]

\* C9: the counters are an exact tally: both start at 0; after k images
\* succeed[c] is the number of them with outcome 1 for class c and fail[c] the
\* number with outcome 0; one image changes at most one of the two counters of
\* a class, by +1, and outcome -1 changes neither; counters never decrease and
\* succeed[c] + fail[c] <= k.
C9_Tally == []C9_Exact /\ [][C9_Step]_vars

\* two images counted: a hit then an invalid keypoint for class 1, a miss
\* then a hit for class 2
C9_Witness ==
  /\ pc = "fetch"
  /\ history = << <<1, 0>>, <<-1, 1>> >>
  /\ succeed_dict = <<1, 1>>
  /\ fail_dict = <<0, 1>>

RECURSIVE SumOver(_, _)
SumOver(dict, S) ==
  IF S = {} THEN 0
  ELSE LET c == CHOOSE x \in S : TRUE IN dict[c] + SumOver(dict, S \ { c })

TotalSucceed == SumOver(succeed_dict, DOMAIN succeed_dict)
TotalFail == SumOver(fail_dict, DOMAIN fail_dict)

Zero == <<0, 1>>
One == <<1, 1>>

\* C5: the returned accuracies come from the final counters: per class
\* succeed / (succeed + fail); in total sum(succeed) / (sum(succeed) +
\* sum(fail)), weighted by the valid keypoints of each class; where defined
\* they lie in [0, 1] and the total lies between the smallest and the largest
\* per-class accuracy.
C5_Accuracies ==
  returned =>
    /\ DOMAIN accuracy_dict = DOMAIN class_names
    /\ \A c \in DOMAIN class_names :
         /\ accuracy_dict[c][2] > 0
         /\ REq(accuracy_dict[c], <<succeed_dict[c], succeed_dict[c] + fail_dict[c]>>)
         /\ RLeq(Zero, accuracy_dict[c]) /\ RLeq(accuracy_dict[c], One)
    /\ total_accuracy[2] = 0 <=> TotalSucceed + TotalFail = 0
    /\ total_accuracy[2] # 0 =>
         /\ total_accuracy[2] > 0
         /\ REq(total_accuracy, <<TotalSucceed, TotalSucceed + TotalFail>>)
         /\ RLeq(Zero, total_accuracy) /\ RLeq(total_accuracy, One)
         /\ \E c \in DOMAIN class_names : RLeq(accuracy_dict[c], total_accuracy)
         /\ \E c \in DOMAIN class_names : RLeq(total_accuracy, accuracy_dict[c])

\* class 1 hit twice, class 2 missed once and was invalid once: the total is
\* 2/3, the mean of the class accuracies 1/2
C5_Witness ==
  /\ returned
  /\ succeed_dict = <<2, 0>>
  /\ fail_dict = <<0, 1>>
  /\ REq(total_accuracy, <<2, 3>>)
  /\ REq(accuracy_dict[1], One) /\ REq(accuracy_dict[2], Zero)

OwnFunction ==
  [f \in ValidFormats |->
     CASE f = "TFLITE" -> "hourglass_predict_tflite"
       [] f = "MNN" -> "hourglass_predict_mnn"
       [] f = "PB" -> "hourglass_predict_pb"
       [] f = "H5" -> "hourglass_predict_keras"]

IsPredict(e) == e[1] \in PredictFunctions
Predictions == SelectSeq(events, IsPredict)

IsArtifact(e) == e[1] \in { "save_keypoints_detection", "draw_plot_func" }

\* the k-th inference is that of image k by the format's own function, and a
\* finished loop has made one inference per image of the dataset
OwnBackendOnly ==
  (InEval /\ model_format \in ValidFormats) =>
    /\ \A k \in 1 .. Len(Predictions) :
         Predictions[k] = <<OwnFunction[model_format], k>>
    /\ Len(Predictions) \in { Len(history), Len(history) + 1 }
    /\ AfterLoop => Len(Predictions) = dataset_size

\* with a format string outside the four: nothing but the first fetch happens
\* before the ValueError
RaisedInvalidFormat ==
  /\ pc = "raised"
  /\ error = "ValueError: invalid model format"
  /\ fetched = 1
  /\ Len(Predictions) = 0
  /\ history = <<>>
  /\ \A c \in DOMAIN class_names : succeed_dict[c] = 0 /\ fail_dict[c] = 0
  /\ dirs = {}
  /\ SelectSeq(events, IsArtifact) = <<>>
  /\ ~returned

\* C6 as stated: each format calls only its own predict function, once per
\* evaluated image; any other format string raises ValueError('invalid model
\* format') on the first image, before any counter changed and any result
\* file was written.
C6_Original ==
  /\ OwnBackendOnly
  /\ (InEval /\ model_format \notin ValidFormats /\ pc \notin { "fetch", "predict" }) =>
       RaisedInvalidFormat

\* C6, amended: each format calls only its own predict function, once per
\* evaluated image; any other format string raises ValueError('invalid model
\* format') on the first image of a dataset that has at least one image,
\* before any counter changed and any result file was written; on an empty
\* dataset the loop is left at the first fetch and no such error is raised.
C6_Dispatch ==
  /\ OwnBackendOnly
  /\ (InEval /\ model_format \notin ValidFormats /\ pc \notin { "fetch", "predict" }) =>
       IF dataset_size >= 1
         THEN RaisedInvalidFormat
         ELSE AfterLoop /\ error # "ValueError: invalid model format"

\* a format outside the four was refused on the first of two images
C6_Witness ==
  /\ model_format = "ONNX"
  /\ dataset_size = 2
  /\ save_result
  /\ RaisedInvalidFormat

IsSave(e) == e[1] = "save_keypoints_detection"
IsPlot(e) == e[1] = "draw_plot_func"
Saves == SelectSeq(events, IsSave)
Plots == SelectSeq(events, IsPlot)

\* C7: without save_result no result directory is made, no detection image
\* saved and no plot drawn; with save_result one detection image is rendered
\* per evaluated image, inside the loop right after that image's counters
\* were updated, and the plot is drawn once, after the last image and after
\* the accuracies were computed.
C7_Artifacts ==
  InEval =>
    /\ ~save_result =>
         /\ dirs = {}
         /\ Saves = <<>>
         /\ Plots = <<>>
         /\ plot_title = NoTitle
    /\ save_result =>
         /\ \A k \in 1 .. Len(Saves) : Saves[k][2] = k
         /\ \A j \in 1 .. Len(events) :
              /\ IsSave(events[j]) => j > 1 /\ events[j - 1] = <<"update", events[j][2]>>
              /\ (events[j][1] = "update" /\ j < Len(events)) =>
                   events[j + 1] = <<"save_keypoints_detection", events[j][2]>>
              /\ IsPlot(events[j]) =>
                   /\ j = Len(events)
                   /\ events[j - 1] = <<"accuracy", 0>>
         /\ Len(Saves) \in { Len(history), Len(history) - 1 }
         /\ Len(Saves) = Len(history) - 1 => pc = "save"
         /\ Len(Saves) > 0 => "result/detection" \in dirs
         /\ Len(Plots) <= 1
         /\ Len(Plots) = 1 =>
              /\ AfterLoop
              /\ Len(Saves) = dataset_size
              /\ "result" \in dirs
              /\ plot_title # NoTitle
         /\ returned => Len(Plots) = 1 /\ Len(Saves) = dataset_size

\* a run with save_result returned after two detection images and the plot
C7_Witness ==
  /\ returned
  /\ save_result
  /\ dataset_size = 2
  /\ Len(Saves) = 2
  /\ Len(Plots) = 1
  /\ dirs = { "result", "result/detection" }

MnnFloat == model_format = "MNN" /\ output_tensor.dtype = "Halide_Type_Float"

UnsupportedLayout == "ValueError: unsupported output tensor dimension type"

\* the heatmap is element 0 of the NCHW output, channel last:
\* heatmap[h, w, c] = output[0, c, h, w]
ChannelLastOfCaffe ==
  LET C == output_tensor.shape[2]
      H == output_tensor.shape[3]
      W == output_tensor.shape[4]
  IN  /\ heatmap.shape = <<H, W, C>>
      /\ DOMAIN heatmap.at = (0 .. H - 1) \X (0 .. W - 1) \X (0 .. C - 1)
      /\ \A h \in 0 .. H - 1, w \in 0 .. W - 1, c \in 0 .. C - 1 :
           heatmap.at[<<h, w, c>>] = (c * H + h) * W + w

\* the heatmap is element 0 of the output as it is:
\* heatmap[i, j, k] = output[0, i, j, k]
Untransposed ==
  LET A == output_tensor.shape[2]
      B == output_tensor.shape[3]
      D == output_tensor.shape[4]
  IN  /\ heatmap.shape = <<A, B, D>>
      /\ DOMAIN heatmap.at = (0 .. A - 1) \X (0 .. B - 1) \X (0 .. D - 1)
      /\ \A i \in 0 .. A - 1, j \in 0 .. B - 1, k \in 0 .. D - 1 :
           heatmap.at[<<i, j, k>>] = (i * B + j) * D + k

\* C8: hourglass_predict_mnn transposes a Caffe (channel-first) output with
\* axes (0,2,3,1) and returns its first element, raises ValueError('unsupported
\* output tensor dimension type') for Caffe_C4 and returns no heatmap, and
\* returns the output untransposed for any other type; in eval_PCK the raise
\* ends the evaluation at that image, with no retry and no accuracy returned.
C8_Layouts ==
  (InEval /\ MnnFloat) =>
    /\ (heatmap # NoHeatmap /\ output_tensor.dimtype = "Caffe") => ChannelLastOfCaffe
    /\ (heatmap # NoHeatmap /\ output_tensor.dimtype \notin { "Caffe", "Caffe_C4" }) =>
         Untransposed
    /\ output_tensor.dimtype = "Caffe_C4" =>
         /\ heatmap = NoHeatmap
         /\ history = <<>>
         /\ Len(Predictions) <= 1
         /\ Len(Predictions) = 1 =>
              /\ pc = "raised"
              /\ error = UnsupportedLayout
              /\ fetched = 1
              /\ ~returned
    /\ output_tensor.dimtype # "Caffe_C4" =>
         /\ error # UnsupportedLayout
         /\ Len(Predictions) > 0 => heatmap # NoHeatmap
    /\ error = UnsupportedLayout => pc = "raised" /\ ~returned

\* a channel-first output of two channels was turned channel last
C8_Witness ==
  /\ pc = "score"
  /\ MnnFloat
  /\ output_tensor.dimtype = "Caffe"
  /\ output_tensor.shape = <<1, 2, HeatmapHeight, HeatmapWidth>>
  /\ ChannelLastOfCaffe

ViaLoad == model_path # NoPath /\ pc # "load"

SupportedOutput ==
  model_format = "MNN" =>
    /\ output_tensor.dimtype # "Caffe_C4"
    /\ output_tensor.dtype = "Halide_Type_Float"

\* C2: the evaluation raises only on an invalid model file extension or an
\* unsupported tensor layout: with a format returned by load_eval_model and a
\* supported output, eval_PCK finishes on every dataset and class list without
\* raising and returns a total accuracy and one accuracy per class name.
C2_Original ==
  (ViaLoad /\ SupportedOutput) =>
    /\ error \in { "", "ValueError: invalid model file", UnsupportedLayout }
    /\ pc = "done" => returned /\ DOMAIN accuracy_dict = DOMAIN class_names

\* the value printed by '{:.2f}' for the percentage
\* 100 * total_succeed / (total_succeed + total_fail), in hundredths
PercentHundredths == RoundHalfEven(100 * 100 * TotalSucceed, TotalSucceed + TotalFail)

\* C10: the title 'PCK@<threshold> score = <value>%' shows the percentage of
\* correct keypoints: the value before the '%' is
\* 100 * total_succeed / (total_succeed + total_fail), 100.00 when every valid
\* keypoint is correct.
C10_Original ==
  plot_title # NoTitle =>
    /\ plot_title.threshold = score_threshold
    /\ plot_title.value.text = "number"
    /\ plot_title.value.hundredths = PercentHundredths
    /\ TotalFail = 0 => plot_title.value.hundredths = 10000

IsCreate(e) == e[1] = "createSession"
IsMnnCall(e) == e[1] = "hourglass_predict_mnn"

C11_Lifecycle ==
  InEval =>
    LET creates == SelectSeq(events, IsCreate)
        calls == SelectSeq(events, IsMnnCall)
    IN  /\ Len(creates) = 1 <=> model_format = "MNN"
        /\ Len(creates) <= 1
        /\ Len(creates) = 1 => IsCreate(events[1])
        /\ \A j \in 1 .. Len(events) :
             IsCreate(events[j]) => \A i \in 1 .. j - 1 : events[i][1] # "fetch"
        /\ Len(session_args) = Len(calls)
        /\ model_format = "MNN" =>
             /\ session = 1
             /\ \A k \in 1 .. Len(session_args) : session_args[k] = session
             /\ Len(calls) = Len(Predictions)
        /\ model_format # "MNN" =>
             /\ session = 0
             /\ session_args = <<>>
             /\ calls = <<>>

\* inside eval_PCK the session is never replaced
C11_Fixed == InEval => session' = session

\* C11: inside eval_PCK an MNN session is created exactly once, before the
\* first image is fetched, if and only if model_format is 'MNN'; that same
\* session is passed to every hourglass_predict_mnn call of the run; for the
\* other formats no MNN session is ever created or used.
C11_Session == []C11_Lifecycle /\ [][C11_Fixed]_vars

\* an MNN run over two images has returned, both inferences with session 1
C11_Witness ==
  /\ pc = "done"
  /\ model_format = "MNN"
  /\ dataset_size = 2
  /\ session = 1
  /\ session_args = <<1, 1>>
  /\ Len(SelectSeq(events, IsCreate)) = 1

====
